---- MODULE Spec2Model ----
(***************************************************************************)
(* A model of the OpenMP / AVX2 kernels of the repository:                 *)
(*   - FloyD (all-pairs shortest paths), scalar variant (omp simd) and     *)
(*     AVX2 variant, both run by a team of OpenMP threads;                 *)
(*   - matmul, AVX2 variant (sequential) and OpenMP variant (collapse(2)). *)
(* Buffers are flat row-major functions from element index to int32.      *)
(* Every shared-memory access of a thread is one step, so the data races   *)
(* of the code show as interleavings of loads and stores.  An aligned      *)
(* 8-lane access at an address that is not 32-byte aligned either faults   *)
(* (vmovdqa) or goes through (a build that emits an unaligned move).       *)
(***************************************************************************)
EXTENDS Integers, Sequences, FiniteSets, TLC

\* ---------------------------------------------------------------- bounds
\* Largest OpenMP team modelled (teams of 1..NumThreads threads).
NumThreads == 2
\* Finite edge weights of the enumerated graphs are 1..MaxW.
MaxW == 2

\* ------------------------------------------------------ program constants
INT_MAX == 2147483647
INT_MIN == -INT_MAX - 1
\* Lanes of a __m256i holding 32-bit integers (the stride of the vector loops).
LANE == 8

Threads == 1 .. NumThreads

\* -------------------------------------------------------- int32 arithmetic
\* Wrapping 32-bit addition (_mm256_add_epi32, and int + int as compiled).
Add32(a, b) ==
    IF a >= 0 /\ b >= 0 /\ a > INT_MAX - b
    THEN (a - INT_MAX - 1) + (b - INT_MAX - 1)
    ELSE IF a < 0 /\ b < 0 /\ a < INT_MIN - b
    THEN (a + INT_MAX + 1) + (b + INT_MAX + 1)
    ELSE a + b

\* Wrapping 32-bit multiplication (_mm256_mullo_epi32, and int * int as
\* compiled), by doubling: a * b for b >= 0, then b < 0 as (b + 2^31) - 2^31.
RECURSIVE MulNat32(_, _)
MulNat32(a, b) ==
    IF b = 0 THEN 0
    ELSE LET h == MulNat32(Add32(a, a), b \div 2)
         IN  IF b % 2 = 1 THEN Add32(a, h) ELSE h
Mul32(a, b) ==
    IF b >= 0 THEN MulNat32(a, b)
    ELSE Add32(MulNat32(a, b - INT_MIN), IF a % 2 = 0 THEN 0 ELSE INT_MIN)

\* std::min / _mm256_min_epi32 on signed 32-bit values.
Min(a, b) == IF b < a THEN b ELSE a

\* Candidate of the scalar variant: saturates on operands equal to INT_MAX.
ZScalar(x, y) == IF x = INT_MAX \/ y = INT_MAX THEN INT_MAX ELSE Add32(x, y)

\* ZLane without the blend: the wrapped sum in every lane.
ZLaneNoBlend(x, y) == Add32(x, y)

\* Candidate of one lane of the AVX2 loop: cmpgt(max_vec, .), and, add, blendv.
ZLane(x, y) ==
    LET x_valid == (INT_MAX \div 2) > x
        y_valid == (INT_MAX \div 2) > y
        valid   == x_valid /\ y_valid
        z       == Add32(x, y)
    IN  IF valid THEN z ELSE INT_MAX

\* ZTail with the test of y left out: saturates on x only.
ZTailOneSided(x, y) ==
    IF x >= INT_MAX \div 2 THEN INT_MAX ELSE Add32(x, y)

\* Candidate of the scalar tail of the AVX2 variant.
ZTail(x, y) ==
    IF x >= INT_MAX \div 2 \/ y >= INT_MAX \div 2 THEN INT_MAX ELSE Add32(x, y)

\* ------------------------------------------------------------------ state
VARIABLES
    variant,    \* FloyD: "scalar" (omp simd) or "avx" (AVX2 intrinsics)
    n,          \* FloyD: the dimension
    nthr,       \* size of the OpenMP team
    d,          \* FloyD: the input buffer, 0..n*n-1 -> int
    r,          \* FloyD: the output buffer, 0..n*n-1 -> int
    pc,         \* FloyD: "copy", "relax", "done" or "fault"
    nextK,      \* FloyD: next pivot the dynamic schedule hands out
    th,         \* FloyD: per-thread position and registers
    run,        \* number of the current FloyD call (1, or 2 for a re-run)
    kernel,     \* matmul: "avx" (AVX2, sequential) or "omp" (parallel for)
    M, N, K,    \* matmul: the dimensions (A is M x N, B is N x K, res is M x K)
    A, B,       \* matmul: the operand buffers
    res0,       \* matmul: the contents of res when matmul is called
    res,        \* matmul: the output buffer, 0..M*K-1 -> int
    mpc,        \* matmul: "run", "done" or "fault"
    todo,       \* matmul omp: iterations (i, j) no thread has been given yet
    mth         \* matmul: per-thread position and registers

fvars == <<variant, n, nthr, d, r, pc, nextK, th, run>>
mvars == <<kernel, M, N, K, A, B, res0, res, mpc, todo, mth>>
vars == <<fvars, mvars>>

Team == 1 .. nthr

\* A thread's registers when it holds nothing.
NoReg == [st |-> "off", k |-> 0, i |-> 0, j |-> 0, x |-> 0, y |-> <<>>, z |-> <<>>,
          w |-> <<>>, c |-> 0, hi |-> 0]
Th(st) == [NoReg EXCEPT !.st = st]

\* A matmul thread's registers when it holds nothing.
MNoReg == [st |-> "off", i |-> 0, j |-> 0, d |-> 0, acc |-> <<>>]
MTh(st) == [MNoReg EXCEPT !.st = st]

\* The state of the kernel that is not running.
MMIdle ==
    /\ kernel = "none"
    /\ M = 0 /\ N = 0 /\ K = 0
    /\ A = <<>> /\ B = <<>> /\ res0 = <<>> /\ res = <<>>
    /\ mpc = "off"
    /\ todo = {}
    /\ mth = [t \in Threads |-> MNoReg]
FloydIdle ==
    /\ variant = "none"
    /\ n = 0
    /\ d = <<>> /\ r = <<>>
    /\ pc = "off"
    /\ nextK = 0
    /\ th = [t \in Threads |-> NoReg]
    /\ run = 0

\* schedule(static) without a chunk size: one contiguous block per thread,
\* the first (total % nthr) threads get one iteration more.
StaticLo(t, total, team) ==
    LET q == total \div team
        rem == total % team
    IN  (t - 1) * q + Min(t - 1, rem)
StaticHi(t, total, team) ==
    LET q == total \div team
        rem == total % team
    IN  StaticLo(t, total, team) + q + (IF t - 1 < rem THEN 1 ELSE 0)

\* ------------------------------------------------------------------ inputs
Weights == (1 .. MaxW) \cup {INT_MAX}

\* Symmetric nn x nn matrices, zero diagonal, off-diagonal entries in Weights.
SymMatrices(nn) ==
    LET P == {p \in (0 .. nn - 1) \X (0 .. nn - 1) : p[1] < p[2]}
    IN  { [c \in 0 .. (nn * nn - 1) |->
             LET i == c \div nn
                 j == c % nn
             IN  IF i = j THEN 0
                 ELSE IF i < j THEN f[<<i, j>>] ELSE f[<<j, i>>]]
          : f \in [P -> Weights] }

\* The 4-vertex scenario of the specification.
Scenario4 ==
    LET S == INT_MAX
        m == <<0, 3, S, 7,
               3, 0, 1, S,
               S, 1, 0, 2,
               7, S, 2, 0>>
    IN  [c \in 0 .. 15 |-> m[c + 1]]

\* A chain 0 - 1 - ... - (nn-1) with weights 1, 2, 1, 2, ... and no other edge.
Chain(nn) ==
    [c \in 0 .. (nn * nn - 1) |->
        LET i == c \div nn
            j == c % nn
        IN  IF i = j THEN 0
            ELSE IF j = i + 1 THEN 1 + (i % 2)
            ELSE IF i = j + 1 THEN 1 + (j % 2)
            ELSE INT_MAX]

\* The 3-vertex paths 0 - 1 - 2 with weights a <= b and no edge 0 - 2.
Paths3 ==
    LET S == INT_MAX
    IN  { [c \in 0 .. 8 |-> <<0,    p[1], S,
                               p[1], 0,    p[2],
                               S,    p[2], 0>>[c + 1]]
          : p \in {q \in (1 .. MaxW) \X (1 .. MaxW) : q[1] <= q[2]} }

\* The 3-vertex paths 0 - 1 - 2 whose two weights are 1 or close to the
\* sentinel: FloyD takes any vector of int, not only the weights main draws.
HeavyWeights == {1, INT_MAX \div 2, INT_MAX - 1}
HeavyPaths3 ==
    LET S == INT_MAX
    IN  { [c \in 0 .. 8 |-> <<0,    p[1], S,
                               p[1], 0,    p[2],
                               S,    p[2], 0>>[c + 1]]
          : p \in HeavyWeights \X HeavyWeights }

\* The dimensions whose graphs are enumerated in full, and the larger
\* dimensions (one full vector group, and one group plus a tail column).
EnumDims == {1, 2, 3}
WideDims == {LANE, LANE + 1}

\* The calls of FloyD: every graph of the enumerated dimensions, the scenario
\* and the chains on a team of one thread (pivots in order); the 3-vertex
\* paths on teams of one and of two threads, the 3-vertex chain on every
\* team of 1..NumThreads threads; the heavy paths on a team of one thread.
FloydInputs ==
    UNION { {[n |-> nn, d |-> m, teams |-> {1}] : m \in SymMatrices(nn)}
            : nn \in EnumDims }
    \cup {[n |-> 3, d |-> m, teams |-> 1 .. Min(2, NumThreads)] : m \in Paths3}
    \cup {[n |-> 3, d |-> Chain(3), teams |-> Threads]}
    \cup {[n |-> 3, d |-> m, teams |-> {1}] : m \in HeavyPaths3}
    \cup {[n |-> 4, d |-> Scenario4, teams |-> {1}]}
    \cup {[n |-> nn, d |-> Chain(nn), teams |-> {1}] : nn \in WideDims}

\* ------------------------------------------------------------------ FloyD
\* main(): r is allocated filled with INT_MAX; FloyD is entered and the
\* first parallel region hands each thread its static block of the copy.
StartCall(nn, team) ==
    [t \in Threads |->
        IF t <= team
        THEN [Th("copy") EXCEPT !.c = StaticLo(t, nn * nn, team),
                                !.hi = StaticHi(t, nn * nn, team)]
        ELSE Th("off")]

Init ==
    /\ variant \in {"scalar", "avx"}
    /\ \E in \in FloydInputs :
         /\ n = in.n
         /\ d = in.d
         /\ nthr \in in.teams
         /\ r = [c \in 0 .. (in.n * in.n - 1) |-> INT_MAX]
    /\ pc = "copy"
    /\ nextK = 0
    /\ th = StartCall(n, nthr)
    /\ run = 1
    /\ MMIdle

\* The copy with its operands exchanged, d[i * n + j] = r[i * n + j]: the
\* variation the read-only inputs are checked against.
CopyCellSwapped(t) ==
    /\ pc = "copy"
    /\ th[t].st = "copy"
    /\ th[t].c < th[t].hi
    /\ d' = [d EXCEPT ![th[t].c] = r[th[t].c]]
    /\ th' = [th EXCEPT ![t].c = @ + 1]
    /\ UNCHANGED <<variant, n, nthr, r, pc, nextK, run, mvars>>

\* r[i * n + j] = d[i * n + j] for one iteration of the collapsed copy loop.
CopyCell(t) ==
    /\ pc = "copy"
    /\ th[t].st = "copy"
    /\ th[t].c < th[t].hi
    /\ r' = [r EXCEPT ![th[t].c] = d[th[t].c]]
    /\ th' = [th EXCEPT ![t].c = th[t].c + 1]
    /\ UNCHANGED <<variant, n, nthr, d, pc, nextK, run, mvars>>

\* The copy region left without its barrier (as under a nowait clause): the
\* relaxation starts when the first thread has finished its block.  The
\* variation the copy-then-relax ordering is checked against.
CopyJoinNoWait ==
    /\ pc = "copy"
    /\ \E t \in Team : th[t].c = th[t].hi
    /\ pc' = "relax"
    /\ nextK' = 0
    /\ th' = [t \in Threads |-> IF t <= nthr THEN Th("idle") ELSE Th("off")]
    /\ UNCHANGED <<variant, n, nthr, d, r, run, mvars>>

\* The implicit barrier that ends the copy region, and the fork of the
\* relaxation region: every thread of the team asks for a pivot.
CopyJoin ==
    /\ pc = "copy"
    /\ \A t \in Team : th[t].c = th[t].hi
    /\ pc' = "relax"
    /\ nextK' = 0
    /\ th' = [t \in Threads |-> IF t <= nthr THEN Th("idle") ELSE Th("off")]
    /\ UNCHANGED <<variant, n, nthr, d, r, run, mvars>>

\* Where a thread stands when it enters row i of pivot k.
RowStart(k, i) ==
    IF variant = "scalar"
    THEN [Th("load") EXCEPT !.k = k, !.i = i]
    ELSE [Th("bcast") EXCEPT !.k = k, !.i = i]

\* Where a thread stands after the last column of row i of pivot k.
RowEnd(k, i) == IF i + 1 < n THEN RowStart(k, i + 1) ELSE Th("idle")

\* schedule(dynamic): an idle thread takes the next pivot k, or leaves the loop.
TakePivot(t) ==
    /\ pc = "relax"
    /\ th[t].st = "idle"
    /\ IF nextK < n
       THEN /\ th' = [th EXCEPT ![t] = RowStart(nextK, 0)]
            /\ nextK' = nextK + 1
       ELSE /\ th' = [th EXCEPT ![t] = Th("fin")]
            /\ nextK' = nextK
    /\ UNCHANGED <<variant, n, nthr, d, r, pc, run, mvars>>

\* RelaxLoad without the min: the candidate itself is what is stored,
\* r[i * n + j] = z.
RelaxLoadNoMin(t) ==
    /\ pc = "relax"
    /\ th[t].st = "load"
    /\ LET k == th[t].k
           i == th[t].i
           j == th[t].j
           x == r[i * n + k]
           y == r[k * n + j]
           z == ZScalar(x, y)
       IN  th' = [th EXCEPT ![t].st = "store", ![t].x = x, ![t].y = <<y>>,
                            ![t].z = <<z>>, ![t].w = <<z>>]
    /\ UNCHANGED <<variant, n, nthr, d, r, pc, nextK, run, mvars>>

\* Scalar variant: the reads of one (k, i, j) iteration and its candidate.
RelaxLoad(t) ==
    /\ pc = "relax"
    /\ th[t].st = "load"
    /\ LET k == th[t].k
           i == th[t].i
           j == th[t].j
           x == r[i * n + k]
           y == r[k * n + j]
           z == ZScalar(x, y)
       IN  th' = [th EXCEPT ![t].st = "store", ![t].x = x, ![t].y = <<y>>,
                            ![t].z = <<z>>, ![t].w = <<Min(r[i * n + j], z)>>]
    /\ UNCHANGED <<variant, n, nthr, d, r, pc, nextK, run, mvars>>

\* Scalar variant: the store of one (k, i, j) iteration, and the loop steps.
RelaxStore(t) ==
    /\ pc = "relax"
    /\ th[t].st = "store"
    /\ LET k == th[t].k
           i == th[t].i
           j == th[t].j
       IN  /\ r' = [r EXCEPT ![i * n + j] = th[t].w[1]]
           /\ th' = [th EXCEPT ![t] =
                        IF j + 1 < n
                        THEN [Th("load") EXCEPT !.k = k, !.i = i, !.j = j + 1]
                        ELSE RowEnd(k, i)]
    /\ UNCHANGED <<variant, n, nthr, d, pc, nextK, run, mvars>>

\* AVX2 variant: where a thread stands at column j of row i, x broadcast.
ColumnAt(k, i, j, x) ==
    IF j <= n - LANE
    THEN [Th("vload") EXCEPT !.k = k, !.i = i, !.j = j, !.x = x]
    ELSE IF j < n
    THEN [Th("tload") EXCEPT !.k = k, !.i = i, !.j = j, !.x = x]
    ELSE RowEnd(k, i)

\* AVX2 variant: x_vec = _mm256_set1_epi32(r[i * n + k]), once per row.
Broadcast(t) ==
    /\ pc = "relax"
    /\ th[t].st = "bcast"
    /\ LET k == th[t].k
           i == th[t].i
       IN  th' = [th EXCEPT ![t] = ColumnAt(k, i, 0, r[i * n + k])]
    /\ UNCHANGED <<variant, n, nthr, d, r, pc, nextK, run, mvars>>

\* The element indices an aligned 8-lane access of thread t is issued at.
VecAddrs(t) ==
    IF th[t].st = "vload"
    THEN {th[t].k * n + th[t].j, th[t].i * n + th[t].j}
    ELSE IF th[t].st = "vstore"
    THEN {th[t].i * n + th[t].j}
    ELSE {}

\* The cells of r the pending store of thread t writes.
WriteCells(t) ==
    IF th[t].st \in {"store", "tstore"}
    THEN {th[t].i * n + th[t].j}
    ELSE IF th[t].st = "vstore"
    THEN (th[t].i * n + th[t].j) .. (th[t].i * n + th[t].j + LANE - 1)
    ELSE {}

\* The element indices of d or r the next step of thread t reads, all lanes
\* of a vector load counted.
ReadCells(t) ==
    LET k == th[t].k
        i == th[t].i
        j == th[t].j
    IN  IF th[t].st = "copy" /\ th[t].c < th[t].hi
        THEN {th[t].c}
        ELSE IF th[t].st \in {"load", "tload"}
        THEN {i * n + k, k * n + j, i * n + j}
        ELSE IF th[t].st = "bcast"
        THEN {i * n + k}
        ELSE IF th[t].st = "vload"
        THEN ((k * n + j) .. (k * n + j + LANE - 1))
                 \cup ((i * n + j) .. (i * n + j + LANE - 1))
        ELSE {}

\* The value the pending store of thread t puts into cell c of r (c in
\* WriteCells(t)): the min it computed for that cell or lane.
PendingValue(t, c) == th[t].w[c - (th[t].i * n + th[t].j) + 1]

\* 32-byte alignment of element index a of a 32-byte aligned int buffer.
Aligned(a) == a % LANE = 0

\* AVX2 variant: the two aligned loads of a column group and the candidate,
\* lane by lane, with the minimum that is to be stored.
VecLoad(t) ==
    /\ pc = "relax"
    /\ th[t].st = "vload"
    /\ LET k == th[t].k
           i == th[t].i
           j == th[t].j
           y_vec == [l \in 1 .. LANE |-> r[k * n + j + l - 1]]
           curr_vec == [l \in 1 .. LANE |-> r[i * n + j + l - 1]]
           z_vec == [l \in 1 .. LANE |-> ZLane(th[t].x, y_vec[l])]
           min_vec == [l \in 1 .. LANE |-> Min(curr_vec[l], z_vec[l])]
       IN  th' = [th EXCEPT ![t].st = "vstore", ![t].y = y_vec,
                            ![t].z = z_vec, ![t].w = min_vec]
    /\ UNCHANGED <<variant, n, nthr, d, r, pc, nextK, run, mvars>>

\* AVX2 variant: the aligned store of a column group, and j += 8.
VecStore(t) ==
    /\ pc = "relax"
    /\ th[t].st = "vstore"
    /\ LET k == th[t].k
           i == th[t].i
           j == th[t].j
           base == i * n + j
       IN  /\ r' = [c \in DOMAIN r |->
                      IF c \in WriteCells(t)
                      THEN th[t].w[c - base + 1] ELSE r[c]]
           /\ th' = [th EXCEPT ![t] = ColumnAt(k, i, j + LANE, th[t].x)]
    /\ UNCHANGED <<variant, n, nthr, d, pc, nextK, run, mvars>>

\* An aligned load or store at an address that is not 32-byte aligned may
\* raise a general-protection fault: the process dies inside FloyD.
AlignFault(t) ==
    /\ pc = "relax"
    /\ \E a \in VecAddrs(t) : ~Aligned(a)
    /\ pc' = "fault"
    /\ UNCHANGED <<variant, n, nthr, d, r, nextK, th, run, mvars>>

\* AVX2 variant, scalar tail: the reads of one remaining column.
TailLoad(t) ==
    /\ pc = "relax"
    /\ th[t].st = "tload"
    /\ LET k == th[t].k
           i == th[t].i
           j == th[t].j
           x == r[i * n + k]
           y == r[k * n + j]
           z == ZTail(x, y)
       IN  th' = [th EXCEPT ![t].st = "tstore", ![t].x = x, ![t].y = <<y>>,
                            ![t].z = <<z>>, ![t].w = <<Min(r[i * n + j], z)>>]
    /\ UNCHANGED <<variant, n, nthr, d, r, pc, nextK, run, mvars>>

\* AVX2 variant, scalar tail: the store of one remaining column, and j++.
TailStore(t) ==
    /\ pc = "relax"
    /\ th[t].st = "tstore"
    /\ LET k == th[t].k
           i == th[t].i
           j == th[t].j
       IN  /\ r' = [r EXCEPT ![i * n + j] = th[t].w[1]]
           /\ th' = [th EXCEPT ![t] = ColumnAt(k, i, j + 1, th[t].x)]
    /\ UNCHANGED <<variant, n, nthr, d, pc, nextK, run, mvars>>

\* The end of the relaxation region: every thread has left the loop.
RelaxJoin ==
    /\ pc = "relax"
    /\ \A t \in Team : th[t].st = "fin"
    /\ pc' = "done"
    /\ th' = [t \in Threads |-> Th("off")]
    /\ UNCHANGED <<variant, n, nthr, d, r, nextK, run, mvars>>

Next ==
    \/ \E t \in Threads : CopyCell(t)
    \/ CopyJoin
    \/ \E t \in Threads : TakePivot(t)
    \/ \E t \in Threads : RelaxLoad(t)
    \/ \E t \in Threads : RelaxStore(t)
    \/ \E t \in Threads : Broadcast(t)
    \/ \E t \in Threads : VecLoad(t)
    \/ \E t \in Threads : VecStore(t)
    \/ \E t \in Threads : AlignFault(t)
    \/ \E t \in Threads : TailLoad(t)
    \/ \E t \in Threads : TailStore(t)
    \/ RelaxJoin

Spec == Init /\ [][Next]_vars

\* The caller runs FloyD again with the output of the first call as the new
\* input d and a fresh output buffer.
Rerun ==
    /\ pc = "done"
    /\ run = 1
    /\ d' = r
    /\ r' = [c \in DOMAIN r |-> INT_MAX]
    /\ pc' = "copy"
    /\ nextK' = 0
    /\ th' = StartCall(n, nthr)
    /\ run' = 2
    /\ UNCHANGED <<variant, n, nthr, mvars>>

NextRerun == Next \/ Rerun

SpecRerun == Init /\ [][NextRerun]_vars

\* ----------------------------------------------------------------- matmul
\* What a lane read outside the buffer may hold.
Garbage == {0, 5}

\* The scenario of the specification: A = [[1,2],[3,4]], B = [[5,6],[7,8]].
Scenario2 ==
    [M |-> 2, N |-> 2, K |-> 2,
     A |-> [c \in 0 .. 3 |-> c + 1], B |-> [c \in 0 .. 3 |-> c + 5],
     kernels |-> {"avx", "omp"}]

\* Operands whose products and sums leave the 32-bit range.
WrapCase ==
    [M |-> 1, N |-> 2, K |-> 1,
     A |-> [c \in 0 .. 1 |-> IF c = 0 THEN 65536 ELSE INT_MAX],
     B |-> [c \in 0 .. 1 |-> IF c = 0 THEN 65536 ELSE 2],
     kernels |-> {"avx", "omp"}]

\* Dimensions <<M, N, K>>: single cells, a contraction longer than a vector
\* group, and rows of B as long as a vector group.
SmallDims == {<<1, 1, 1>>, <<2, 1, 2>>, <<2, 2, 2>>, <<1, LANE + 1, 1>>}
WideMMDims == {<<1, LANE + 1, LANE>>, <<2, LANE, LANE>>}

PatternInputs(dims, kernels) ==
    { [M |-> dm[1], N |-> dm[2], K |-> dm[3],
       A |-> [c \in 0 .. (dm[1] * dm[2] - 1) |-> a + c],
       B |-> [c \in 0 .. (dm[2] * dm[3] - 1) |-> 1 + ((c + a) % 3)],
       kernels |-> kernels]
      : dm \in dims, a \in 1 .. MaxW }

MatmulInputs ==
    {Scenario2, WrapCase}
    \cup PatternInputs(SmallDims, {"avx", "omp"})
    \cup PatternInputs(WideMMDims, {"avx"})

\* The AVX2 kernel at the top of the body of the j loop: sum_vec = 0, d = 0.
CellStart(i, j) ==
    [MTh(IF 0 < N THEN "acc" ELSE "store") EXCEPT
        !.i = i, !.j = j, !.d = 0, !.acc = [l \in 1 .. LANE |-> 0]]

\* main(): the operands, res as the vector constructor left it (zeros) or
\* not cleared; the AVX2 kernel runs on one thread, the parallel loop on a team.
MMInit ==
    /\ FloydIdle
    /\ \E in \in MatmulInputs :
         /\ M = in.M /\ N = in.N /\ K = in.K
         /\ A = in.A /\ B = in.B
         /\ kernel \in in.kernels
         /\ res0 \in {[c \in 0 .. (in.M * in.K - 1) |-> v] : v \in {0, 1}}
    /\ res = res0
    /\ mpc = "run"
    /\ nthr \in (IF kernel = "avx" THEN {1} ELSE Threads)
    /\ todo = IF kernel = "omp" THEN (0 .. M - 1) \X (0 .. K - 1) ELSE {}
    /\ mth = [t \in Threads |->
                IF t > nthr THEN MNoReg
                ELSE IF kernel = "avx" THEN CellStart(0, 0)
                ELSE MTh("idle")]

\* The element indices the next aligned 8-lane access of the AVX2 kernel
\* is issued at: the load of B in the d loop, the store to res after it.
MMVecAddrs(t) ==
    IF kernel = "avx" /\ mth[t].st = "acc"
    THEN {mth[t].d * K + mth[t].j}
    ELSE IF kernel = "avx" /\ mth[t].st = "store"
    THEN {mth[t].i * K + mth[t].j}
    ELSE {}

\* AVX2 kernel: one iteration of the d loop (broadcast, load, mullo, add,
\* d += 8).  Lanes of the load that lie past the end of B hold anything.
MMVecAcc(t) ==
    /\ mpc = "run"
    /\ kernel = "avx"
    /\ mth[t].st = "acc"
    /\ LET i == mth[t].i
           j == mth[t].j
           dd == mth[t].d
           a == A[i * N + dd]
           base == dd * K + j
           out == {l \in 1 .. LANE : base + l - 1 >= N * K}
       IN  \E g \in [out -> Garbage] :
             LET b_vec == [l \in 1 .. LANE |->
                             IF l \in out THEN g[l] ELSE B[base + l - 1]]
                 sum_vec == [l \in 1 .. LANE |->
                               Add32(mth[t].acc[l], Mul32(a, b_vec[l]))]
             IN  mth' = [mth EXCEPT ![t].acc = sum_vec,
                                    ![t].d = dd + LANE,
                                    ![t].st = IF dd + LANE < N THEN "acc" ELSE "store"]
    /\ UNCHANGED <<kernel, M, N, K, A, B, res0, res, mpc, todo, fvars>>

\* The element indices the pending store of thread t writes, inside res or not.
MMWriteCells(t) ==
    IF mth[t].st = "store"
    THEN (mth[t].i * K + mth[t].j) .. (mth[t].i * K + mth[t].j + LANE - 1)
    ELSE IF mth[t].st = "mstore"
    THEN {mth[t].i * K + mth[t].j}
    ELSE {}

\* The element indices of A and of B the next step of thread t reads, all
\* lanes of the vector load of B counted.
MMReadA(t) ==
    IF mth[t].st \in {"acc", "load"}
    THEN {mth[t].i * N + mth[t].d}
    ELSE {}
MMReadB(t) ==
    IF mth[t].st = "acc"
    THEN (mth[t].d * K + mth[t].j) .. (mth[t].d * K + mth[t].j + LANE - 1)
    ELSE IF mth[t].st = "load"
    THEN {mth[t].d * K + mth[t].j}
    ELSE {}

\* AVX2 kernel, at the store of a cell: the indices d whose A[i][d] entered
\* the cell (one per iteration of the d += 8 loop, which broadcasts A[i][d]
\* to all lanes), and the indices the scalar loop after the store takes.
MMMainIndices(t) == {dd \in 0 .. (mth[t].d - 1) : dd % LANE = 0 /\ dd < N}
MMTailIndices(t) == mth[t].d .. (N - 1)

\* AVX2 kernel: the scalar loop after the store, for (; d < N; d++).
RECURSIVE MMTail(_, _, _, _)
MMTail(buf, i, j, dd) ==
    IF dd < N
    THEN MMTail([buf EXCEPT ![i * K + j] =
                    Add32(buf[i * K + j], Mul32(A[i * N + dd], B[dd * K + j]))],
                i, j, dd + 1)
    ELSE buf

\* AVX2 kernel: the aligned store of sum_vec at &res[i * K + j] (the lanes
\* past the end of res land outside the buffer), the scalar loop, and the
\* step to the next cell.
MMVecStore(t) ==
    /\ mpc = "run"
    /\ kernel = "avx"
    /\ mth[t].st = "store"
    /\ LET i == mth[t].i
           j == mth[t].j
           base == i * K + j
           stored == [c \in DOMAIN res |->
                        IF c \in MMWriteCells(t)
                        THEN mth[t].acc[c - base + 1] ELSE res[c]]
       IN  /\ res' = MMTail(stored, i, j, mth[t].d)
           /\ IF j + 1 < K
              THEN mth' = [mth EXCEPT ![t] = CellStart(i, j + 1)] /\ mpc' = mpc
              ELSE IF i + 1 < M
              THEN mth' = [mth EXCEPT ![t] = CellStart(i + 1, 0)] /\ mpc' = mpc
              ELSE mth' = [mth EXCEPT ![t] = MTh("off")] /\ mpc' = "done"
    /\ UNCHANGED <<kernel, M, N, K, A, B, res0, todo, fvars>>

\* AVX2 kernel: an aligned access at an address that is not 32-byte aligned
\* may raise a general-protection fault.
MMAlignFault(t) ==
    /\ mpc = "run"
    /\ \E a \in MMVecAddrs(t) : ~Aligned(a)
    /\ mpc' = "fault"
    /\ UNCHANGED <<kernel, M, N, K, A, B, res0, res, todo, mth, fvars>>

\* Parallel kernel: a thread is given an iteration (i, j) of the collapsed
\* loop nobody has run yet (no schedule clause: any assignment of iterations
\* to threads), or leaves the loop.
MMTake(t) ==
    /\ mpc = "run"
    /\ kernel = "omp"
    /\ mth[t].st = "idle"
    /\ IF todo # {}
       THEN \E c \in todo :
              /\ mth' = [mth EXCEPT ![t] = [MTh("load") EXCEPT !.i = c[1], !.j = c[2]]]
              /\ todo' = todo \ {c}
       ELSE /\ mth' = [mth EXCEPT ![t] = MTh("fin")]
            /\ todo' = todo
    /\ UNCHANGED <<kernel, M, N, K, A, B, res0, res, mpc, fvars>>

\* Parallel kernel: the reads of res[i * K + j] += A[i * N + d] * B[d * K + j].
MMLoad(t) ==
    /\ mpc = "run"
    /\ mth[t].st = "load"
    /\ LET i == mth[t].i
           j == mth[t].j
           dd == mth[t].d
       IN  mth' = [mth EXCEPT
                     ![t].st = "mstore",
                     ![t].acc = <<Add32(res[i * K + j],
                                        Mul32(A[i * N + dd], B[dd * K + j]))>>]
    /\ UNCHANGED <<kernel, M, N, K, A, B, res0, res, mpc, todo, fvars>>

\* Parallel kernel: the write of the += and d++.
MMStore(t) ==
    /\ mpc = "run"
    /\ mth[t].st = "mstore"
    /\ LET i == mth[t].i
           j == mth[t].j
           dd == mth[t].d
       IN  /\ res' = [c \in DOMAIN res |->
                        IF c \in MMWriteCells(t) THEN mth[t].acc[1] ELSE res[c]]
           /\ mth' = [mth EXCEPT ![t] =
                         IF dd + 1 < N
                         THEN [MTh("load") EXCEPT !.i = i, !.j = j, !.d = dd + 1]
                         ELSE MTh("idle")]
    /\ UNCHANGED <<kernel, M, N, K, A, B, res0, mpc, todo, fvars>>

\* Parallel kernel: the implicit barrier at the end of the parallel loop.
MMJoin ==
    /\ mpc = "run"
    /\ kernel = "omp"
    /\ \A t \in Team : mth[t].st = "fin"
    /\ mpc' = "done"
    /\ mth' = [t \in Threads |-> MTh("off")]
    /\ UNCHANGED <<kernel, M, N, K, A, B, res0, res, todo, fvars>>

MMNext ==
    \/ \E t \in Threads : MMVecAcc(t)
    \/ \E t \in Threads : MMVecStore(t)
    \/ \E t \in Threads : MMAlignFault(t)
    \/ \E t \in Threads : MMTake(t)
    \/ \E t \in Threads : MMLoad(t)
    \/ \E t \in Threads : MMStore(t)
    \/ MMJoin

SpecMM == MMInit /\ [][MMNext]_vars

\* Either program: a call of FloyD or a call of matmul.
InitAll == Init \/ MMInit
NextAll == Next \/ MMNext
SpecAll == InitAll /\ [][NextAll]_vars

\* ------------------------------------------------------------ references
\* The sequential scalar pivot relaxation, in place: the columns of one row,
\* the rows of one pivot, the pivots in order.  Rule "half" saturates at
\* INT_MAX / 2, any other rule at INT_MAX.
RECURSIVE SeqRow(_, _, _, _, _, _)
SeqRow(m, nn, k, i, j, rule) ==
    IF j >= nn THEN m
    ELSE LET x == m[i * nn + k]
             y == m[k * nn + j]
             z == IF rule = "half" THEN ZTail(x, y) ELSE ZScalar(x, y)
         IN  SeqRow([m EXCEPT ![i * nn + j] = Min(m[i * nn + j], z)],
                    nn, k, i, j + 1, rule)
RECURSIVE SeqPivot(_, _, _, _, _)
SeqPivot(m, nn, k, i, rule) ==
    IF i >= nn THEN m
    ELSE LET row == SeqRow(m, nn, k, i, 0, rule)
         IN  IF DOMAIN row = DOMAIN m     \* (evaluates row before the next one)
             THEN SeqPivot(row, nn, k, i + 1, rule) ELSE m
RECURSIVE SeqRelax(_, _, _, _)
SeqRelax(m, nn, k, rule) ==
    IF k >= nn THEN m
    ELSE LET pass == SeqPivot(m, nn, k, 0, rule)
         IN  IF DOMAIN pass = DOMAIN m    \* (evaluates pass before the next one)
             THEN SeqRelax(pass, nn, k + 1, rule) ELSE m

\* The naive triple loop: the wrapping sum over d of A[i][d] * B[d][j].
RECURSIVE Dot(_, _, _)
Dot(i, j, dd) ==
    IF dd >= N THEN 0
    ELSE Add32(Mul32(A[i * N + dd], B[dd * K + j]), Dot(i, j, dd + 1))
Product == [c \in 0 .. (M * K - 1) |-> Dot(c \div K, c % K, 0)]

\* Thread t is inside the relaxation of its pivot th[t].k.
Relaxing(t) ==
    th[t].st \in {"load", "store", "bcast", "vload", "vstore", "tload", "tstore"}

\* ------------------------------------------------------------------ claims
\* C1: when FloyD ends, under every schedule, r is the result of the sequential
\* scalar pivot relaxation of d (the shortest distances, INT_MAX where there
\* is no path).
FloydCorrect == pc = "done" => r = SeqRelax(d, n, 0, "max")

\* C2: pivots are strictly ordered: two threads are never inside the
\* relaxation of two different pivots at the same time.
PivotBarrier ==
    \A t \in Threads : \A u \in Threads :
        (Relaxing(t) /\ Relaxing(u)) => th[t].k = th[u].k

\* C3: no two threads ever have a pending write to the same cell of r.
DisjointWrites ==
    \A t \in Threads : \A u \in Threads :
        t # u => WriteCells(t) \cap WriteCells(u) = {}

\* C4: with res zero-initialised, matmul (either kernel) ends with res equal
\* to the product computed by the naive triple loop.
MatmulCorrect ==
    (mpc = "done" /\ \A c \in DOMAIN res0 : res0[c] = 0) => res = Product

\* C5: whatever res held at the call, the parallel kernel ends with res
\* equal to the product.
FreshSum == (kernel = "omp" /\ mpc = "done") => res = Product

\* C6: the unit of work of cell (i, j) writes res[i * K + j] and nothing else.
OwnCellOnly ==
    \A t \in Threads :
        mth[t].st \in {"store", "mstore"}
            => MMWriteCells(t) = {mth[t].i * K + mth[t].j}

\* C7: FloyD run again on its own output ends with that same matrix.
Idempotent == (run = 2 /\ pc = "done") => r = d

\* C8: in every relaxation step, vector lane or scalar, a candidate z
\* computed from an operand equal to INT_MAX is exactly INT_MAX.
Saturation ==
    \A t \in Threads : \A l \in DOMAIN th[t].z :
        (th[t].x = INT_MAX \/ th[t].y[l] = INT_MAX) => th[t].z[l] = INT_MAX

\* C8 witness: a vector step is pending in which one lane of the pivot row
\* holds INT_MAX, another lane holds a finite value, and the first lane's
\* candidate is INT_MAX.
SaturationWitness ==
    \E t \in Threads :
        /\ th[t].st = "vstore"
        /\ th[t].x < INT_MAX
        /\ \E l \in 1 .. LANE : th[t].y[l] = INT_MAX /\ th[t].z[l] = INT_MAX
        /\ \E l \in 1 .. LANE : th[t].z[l] < INT_MAX

\* C9: run on one thread (pivots in order), the AVX2 variant completes for
\* every n and ends with the r of the scalar loop under the same saturation
\* rule.
LaneTailEquivalence ==
    (variant = "avx" /\ nthr = 1)
        => /\ pc # "fault"
           /\ pc = "done" => r = SeqRelax(d, n, 0, "half")

\* C10: every aligned 8-lane load or store of matmul and of FloyD is issued
\* at an element index that is a multiple of 8.
AlignedAccesses ==
    /\ \A t \in Threads : \A a \in VecAddrs(t) : Aligned(a)
    /\ \A t \in Threads : \A a \in MMVecAddrs(t) : Aligned(a)

\* C11: FloyD is deterministic: whatever the team and the hand-out of the
\* pivots, a call ends with the r that the same variant produces with its
\* pivots taken in order.
Deterministic ==
    pc = "done"
        => r = SeqRelax(d, n, 0, IF variant = "avx" THEN "half" ELSE "max")

CopyThenRelax ==
    /\ \A t \in Threads : Relaxing(t) => pc # "copy"
    /\ (pc = "relax" /\ nextK = 0) => r = d

\* C13 witness: a team of two threads has copied its two blocks and stands at
\* the start of the relaxation with r equal to d.
CopyThenRelaxWitness ==
    /\ pc = "relax"
    /\ nextK = 0
    /\ nthr = 2
    /\ r = d
    /\ \E c \in DOMAIN r : r[c] # INT_MAX

\* C14: when the AVX2 matmul stores a cell, the indices taken by its 8-wide
\* loop and by its scalar tail are together exactly 0..N-1, and the tail
\* takes exactly the last N mod 8 of them.
IndexCoverage ==
    \A t \in Threads :
        (kernel = "avx" /\ mth[t].st = "store")
            => /\ MMMainIndices(t) \cup MMTailIndices(t) = 0 .. (N - 1)
               /\ MMTailIndices(t) = (N - (N % LANE)) .. (N - 1)

\* C15: no candidate z a thread holds and no cell of r is ever negative: the
\* combine never yields a wrapped 32-bit sum, whatever non-negative entries d
\* has.
NoWraparound ==
    /\ \A c \in DOMAIN r : r[c] >= 0
    /\ \A t \in Threads : \A l \in DOMAIN th[t].z : th[t].z[l] >= 0

\* C16: with the pivots taken one at a time (a team of one thread), a store
\* of the pass for pivot k into row k or column k of r stores the value the
\* cell already holds.
PivotRowColStable ==
    nthr = 1
        => \A t \in Threads : \A c \in WriteCells(t) :
               (c \div n = th[t].k \/ c % n = th[t].k)
                   => PendingValue(t, c) = r[c]

\* The entries of d are the sentinel or so small that no sum of two
\* distances that arises (a walk of at most 2 * n edges) reaches INT_MAX / 2.
SmallValues ==
    \A c \in DOMAIN d :
        d[c] = INT_MAX \/ (0 <= d[c] /\ d[c] <= (INT_MAX \div 2) \div (2 * n))

\* C17: on small values and with the pivots in order (a team of one thread),
\* each variant ends with the r that the sequential relaxation gives under
\* the other variant's saturation rule: the AVX2 variant (INT_MAX / 2) with
\* the result of the INT_MAX rule, the scalar variant (INT_MAX) with the
\* result of the INT_MAX / 2 rule.
PoliciesAgree ==
    (nthr = 1 /\ pc = "done" /\ SmallValues)
        => r = SeqRelax(d, n, 0, IF variant = "avx" THEN "max" ELSE "half")

\* C17 witness: the AVX2 variant has returned from a one-thread call on
\* small values in which a cell that held the sentinel in d holds a finite
\* distance in r.
PoliciesAgreeWitness ==
    /\ nthr = 1
    /\ pc = "done"
    /\ SmallValues
    /\ variant = "avx"
    /\ \E c \in DOMAIN r : d[c] = INT_MAX /\ r[c] < INT_MAX

\* C18: once the copy is done no store raises a cell: the value a thread is
\* about to store into a cell of r is at most the value the cell holds.
Monotone ==
    \A t \in Threads : \A c \in WriteCells(t) : PendingValue(t, c) <= r[c]

\* C19: on small values, in every state after the copy and under every
\* schedule, each cell of r is at most the cell of d and at least the
\* shortest distance in d (the sequential relaxation of d), and the diagonal
\* of r is 0.
Sound ==
    (pc # "copy" /\ SmallValues)
        => LET dist == SeqRelax(d, n, 0, "max")
           IN  \A c \in DOMAIN r :
                   /\ dist[c] <= r[c]
                   /\ r[c] <= d[c]
                   /\ (c \div n = c % n) => r[c] = 0

\* C19 witness: two threads are inside the relaxations of two different
\* pivots on small values and a cell of r already holds less than its cell
\* of d.
SoundWitness ==
    /\ pc = "relax"
    /\ SmallValues
    /\ \E t \in Threads : \E u \in Threads :
           Relaxing(t) /\ Relaxing(u) /\ th[t].k # th[u].k
    /\ \E c \in DOMAIN r : r[c] < d[c]

\* C20: every element index the next step of a thread reads or writes lies
\* inside its buffer, all 8 lanes of a vector access counted: A, B and res
\* in matmul, d and r in FloyD.
InBounds ==
    \A t \in Threads :
        /\ MMReadA(t) \subseteq DOMAIN A
        /\ MMReadB(t) \subseteq DOMAIN B
        /\ MMWriteCells(t) \subseteq DOMAIN res
        /\ ReadCells(t) \subseteq DOMAIN r
        /\ WriteCells(t) \subseteq DOMAIN r

====
